---- MODULE Spec2Model ----
(***************************************************************************)
(* The three Express services of the repository (src/index.js,             *)
(* src/unnamed/part_000, src/unnamed/part_001) as one state machine.  Each  *)
(* service opens its pool on process.env.DATABASE_URL and takes its token   *)
(* key from process.env.JWT_SECRET, so the services share the usuarios and  *)
(* registros tables and the process secret.  One action per route handler.  *)
(***************************************************************************)
EXTENDS Integers, Sequences, FiniteSets, TLC

\* ------------------------------------------------------------------ bounds
MaxUsuarios == 1        \* accounts created while the credential lifecycle is explored
MaxOwners == 2          \* accounts created while the record routes are explored
MaxRegistros == 2       \* ids the registros sequence hands out
MaxLate == 1            \* seconds past the first expiration the clock reaches

\* ------------------------------------------------------- program constants
saltRounds == 10        \* bcrypt cost factor passed to bcrypt.hash
expiresIn == 3600       \* expiresIn: '1h', in seconds
BcryptKeyBytes == 72    \* bytes of the password bcrypt's key schedule reads
undefined == 0          \* a JavaScript undefined / SQL NULL where an id is expected

Services == {"index.js", "part_000", "part_001"}
LoginServices == {"index.js", "part_000"}
RegistroServices == {"index.js", "part_000"}

NoSecret == "<unset>"
Secrets == {NoSecret, "s3cr3t"}
NoError == ""
DbErrors == {"connection terminated unexpectedly",
             "duplicate key value violates unique constraint"}

\* ------------------------------------------------------------ byte strings
\* A string of non-NUL bytes: n copies of the byte fill, then the bytes of
\* tail.  Str(0, 0, <<>>) is the empty string.
Str(n, fill, tail) == [n |-> n, fill |-> fill, tail |-> tail]
Empty == Str(0, 0, <<>>)
Min(a, b) == IF a < b THEN a ELSE b

\* The first k bytes of s.
Take(s, k) ==
    IF k <= s.n
    THEN Str(k, IF k = 0 THEN 0 ELSE s.fill, <<>>)
    ELSE Str(s.n, s.fill, SubSeq(s.tail, 1, Min(Len(s.tail), k - s.n)))

\* s followed by the byte b.
AppendByte(s, b) == [s EXCEPT !.tail = Append(@, b)]

\* -------------------------------------------------------------- passwords
Short == Str(0, 0, <<1>>)
\* Passwords one byte longer than bcrypt reads, differing in the last byte.
Long(b) == Str(BcryptKeyBytes, 7, <<b>>)
Passwords == {Empty, Short, Long(1), Long(2)}
Salts == {"saltA", "saltB"}
Correos == {"", "a@x", "b@x"}

\* ---------------------------------------------------------------- bcryptjs
\* The key material bcrypt reads from a password: the first 72 bytes of the
\* password followed by a NUL.  (The key schedule reads a shorter one
\* cyclically; its bytes up to the NUL determine what it reads.)
bcryptKey(s) == Take(AppendByte(s, 0), BcryptKeyBytes)

\* What a contrasena column can hold: a bcrypt hash string (version, cost,
\* salt, digest) or any other text.
Text(s) == [fmt |-> "text", cost |-> 0, salt |-> "", digest |-> s]

\* bcrypt.hash(s, rounds) with the salt genSalt drew.  The digest stands for
\* the one-way output of the key under that salt and cost.
bcrypt_hash(s, rounds, salt) ==
    [fmt |-> "$2a$", cost |-> rounds, salt |-> salt, digest |-> bcryptKey(s)]

\* bcrypt.compare(s, hash): false for a string that is no bcrypt hash,
\* otherwise re-hash with the embedded salt and cost and compare.
bcrypt_compare(s, hash) ==
    /\ hash.fmt = "$2a$"
    /\ bcrypt_hash(s, hash.cost, hash.salt) = hash

\* ------------------------------------------------------------ jsonwebtoken
NoPayload == [id |-> undefined, iat |-> 0, exp |-> 0]

\* The HS256 signature of a payload under a key.
HS256(payload, key) == [payload |-> payload, key |-> key]

\* A token string, by what jwt.verify makes of it: parse is the error its
\* parsing ends in ("" when it splits and decodes), then payload and signature.
\* Malformed is a string that does not split into three parts.
Malformed == [parse |-> "jwt malformed", payload |-> NoPayload,
              sig |-> HS256(NoPayload, "")]

\* "Bearer " + token taken as a token: three parts still, but the first no
\* longer decodes.
Prefixed(token) ==
    IF token.parse = "" THEN [token EXCEPT !.parse = "invalid token"] ELSE token

\* jwt.sign({ id }, secret, { expiresIn: '1h' }) at clock second now.
jwt_sign(id, key, now) ==
    LET payload == [id |-> id, iat |-> now, exp |-> now + expiresIn]
    IN  [parse |-> "", payload |-> payload, sig |-> HS256(payload, key)]

\* jwt.verify with the expiration compared one second late.
jwt_verify_error_late(token, key, now) ==
    IF token.parse # "" THEN token.parse
    ELSE IF key = NoSecret THEN "secret or public key must be provided"
    ELSE IF token.sig # HS256(token.payload, key) THEN "invalid signature"
    ELSE IF now > token.payload.exp THEN "jwt expired"
    ELSE NoError

\* jwt.verify(token, secret) at clock second now: the error it throws, or
\* NoError when it returns the decoded payload.
jwt_verify_error(token, key, now) ==
    IF token.parse # "" THEN token.parse
    ELSE IF key = NoSecret THEN "secret or public key must be provided"
    ELSE IF token.sig # HS256(token.payload, key) THEN "invalid signature"
    ELSE IF now >= token.payload.exp THEN "jwt expired"
    ELSE NoError

VARIABLES
    secret,        \* process.env.JWT_SECRET
    listening,     \* the service whose app.listen holds PORT ("" when none does)
    clock,         \* Math.floor(Date.now() / 1000)
    usuarios,      \* rows of the usuarios table
    usuariosSeq,   \* next value of usuarios.id
    registros,     \* rows of the registros table
    registrosSeq,  \* next value of registros.id
    held,          \* the token the client keeps: the one its last login returned
    submitted,     \* history: id -> the password last written for the row
    res            \* the last HTTP exchange: the response and what the handler did

vars == <<secret, listening, clock, usuarios, usuariosSeq, registros,
          registrosSeq, held, submitted, res>>

\* ---------------------------------------------------------------- responses
NoToken == Malformed
NoHeader == [set |-> FALSE, scheme |-> "", token |-> NoToken]

\* The JSON body of a response: { error }, { message, ... }, a row or rows,
\* and the token login adds.
Body(error, message, rows, token) ==
    [error |-> error, message |-> message, rows |-> rows, token |-> token]

ErrorBody(msg) == Body(msg, "", {}, NoToken)

\* One exchange.  status and body are what the client receives; the other
\* fields record the request and what the handler did while serving it.
Exchange(svc, route, status, body, did) ==
    [svc |-> svc, route |-> route, status |-> status, body |-> body,
     correo |-> did.correo, contrasena |-> did.contrasena,
     header |-> did.header,
     usuario_id |-> did.usuario_id, bound |-> did.bound,
     queried |-> did.queried, touched |-> did.touched,
     thrown |-> did.thrown]

\* A handler that has done nothing yet.
Idle == [correo |-> "", contrasena |-> Empty, header |-> NoHeader,
         usuario_id |-> undefined, bound |-> FALSE,
         queried |-> FALSE, touched |-> {}, thrown |-> NoError]

NoExchange == Exchange("", "", 0, ErrorBody(""), Idle)

Init ==
    /\ secret \in Secrets
    /\ listening = ""
    /\ clock = 0
    /\ usuarios = {}
    /\ usuariosSeq = 1
    /\ registros = {}
    /\ registrosSeq = 1
    /\ held = NoToken
    /\ submitted = [i \in {} |-> Empty]
    /\ res = NoExchange

\* The state after start-up with JWT_SECRET set in the environment.
InitKeyed == Init /\ secret # NoSecret

\* app.listen(PORT, ...): runs at the end of each service's start-up, whatever
\* the environment holds.  The three services bind the same PORT, so the one
\* started last is the one that serves.
Listen(s) ==
    /\ s # listening
    /\ listening' = s
    /\ UNCHANGED <<secret, clock, usuarios, usuariosSeq, registros,
                   registrosSeq, held, submitted, res>>

\* hashedPassword with the hashing forgotten: the submitted text is stored.
hashedPassword_plain(contrasena, salt) == Text(contrasena)

\* const hashedPassword = await bcrypt.hash(contrasena, saltRounds)
hashedPassword(contrasena, salt) == bcrypt_hash(contrasena, saltRounds, salt)

MissingFields == "Todos los campos son obligatorios: nombre, correo, contrasena."

\* POST /usuarios
PostUsuarios(s, nombre, correo, contrasena, salt, dbErr) ==
    /\ s = listening
    /\ IF nombre = "" \/ correo = "" \/ contrasena = Empty
       THEN /\ res' = Exchange(s, "POST /usuarios", 400, ErrorBody(MissingFields), Idle)
            /\ UNCHANGED <<usuarios, usuariosSeq, submitted>>
       ELSE IF dbErr # NoError
       THEN /\ res' = Exchange(s, "POST /usuarios", 500, ErrorBody(dbErr),
                               [Idle EXCEPT !.queried = TRUE, !.thrown = dbErr])
            /\ UNCHANGED <<usuarios, usuariosSeq, submitted>>
       ELSE LET row == [id |-> usuariosSeq, nombre |-> nombre, correo |-> correo,
                        contrasena |-> hashedPassword(contrasena, salt)]
            IN  /\ usuarios' = usuarios \cup {row}
                /\ usuariosSeq' = usuariosSeq + 1
                /\ submitted' = [i \in DOMAIN submitted \cup {row.id} |->
                                    IF i = row.id THEN contrasena ELSE submitted[i]]
                /\ res' = Exchange(s, "POST /usuarios", 201, Body("", "", {row}, NoToken),
                                   [Idle EXCEPT !.queried = TRUE, !.touched = {row}])
    /\ UNCHANGED <<secret, listening, clock, registros, registrosSeq, held>>

\* PUT /usuarios/:id
PutUsuarios(s, id, nombre, correo, contrasena, salt, dbErr) ==
    /\ s = listening
    /\ IF nombre = "" \/ correo = "" \/ contrasena = Empty
       THEN /\ res' = Exchange(s, "PUT /usuarios/:id", 400, ErrorBody(MissingFields), Idle)
            /\ UNCHANGED <<usuarios, submitted>>
       ELSE IF dbErr # NoError
       THEN /\ res' = Exchange(s, "PUT /usuarios/:id", 500, ErrorBody(dbErr),
                               [Idle EXCEPT !.queried = TRUE, !.thrown = dbErr])
            /\ UNCHANGED <<usuarios, submitted>>
       ELSE LET old == {u \in usuarios : u.id = id}
                row == [id |-> id, nombre |-> nombre, correo |-> correo,
                        contrasena |-> hashedPassword(contrasena, salt)]
            IN  IF old = {}
                THEN /\ res' = Exchange(s, "PUT /usuarios/:id", 404,
                                        ErrorBody("Usuario no encontrado"),
                                        [Idle EXCEPT !.queried = TRUE])
                     /\ UNCHANGED <<usuarios, submitted>>
                ELSE /\ usuarios' = (usuarios \ old) \cup {row}
                     /\ submitted' = [submitted EXCEPT ![id] = contrasena]
                     /\ res' = Exchange(s, "PUT /usuarios/:id", 200,
                                        Body("", "", {row}, NoToken),
                                        [Idle EXCEPT !.queried = TRUE, !.touched = {row}])
    /\ UNCHANGED <<secret, listening, clock, usuariosSeq, registros, registrosSeq, held>>

\* DELETE /usuarios/:id
DeleteUsuarios(s, id, dbErr) ==
    /\ s = listening
    /\ IF dbErr # NoError
       THEN /\ res' = Exchange(s, "DELETE /usuarios/:id", 500, ErrorBody(dbErr),
                               [Idle EXCEPT !.queried = TRUE, !.thrown = dbErr])
            /\ UNCHANGED usuarios
       ELSE LET old == {u \in usuarios : u.id = id}
            IN  IF old = {}
                THEN /\ res' = Exchange(s, "DELETE /usuarios/:id", 404,
                                        ErrorBody("Usuario no encontrado"),
                                        [Idle EXCEPT !.queried = TRUE])
                     /\ UNCHANGED usuarios
                ELSE /\ usuarios' = usuarios \ old
                     /\ res' = Exchange(s, "DELETE /usuarios/:id", 200,
                                        Body("", "Usuario eliminado correctamente", old, NoToken),
                                        [Idle EXCEPT !.queried = TRUE, !.touched = old])
    /\ UNCHANGED <<secret, listening, clock, usuariosSeq, registros, registrosSeq,
                   held, submitted>>

\* GET /usuarios: SELECT * FROM usuarios, answered whole.
GetUsuarios(s, dbErr) ==
    /\ s = listening
    /\ IF dbErr # NoError
       THEN res' = Exchange(s, "GET /usuarios", 500, ErrorBody(dbErr),
                            [Idle EXCEPT !.queried = TRUE, !.thrown = dbErr])
       ELSE res' = Exchange(s, "GET /usuarios", 200, Body("", "", usuarios, NoToken),
                            [Idle EXCEPT !.queried = TRUE, !.touched = usuarios])
    /\ UNCHANGED <<secret, listening, clock, usuarios, usuariosSeq, registros,
                   registrosSeq, held, submitted>>

\* GET /usuarios/:id: SELECT * FROM usuarios WHERE id = $1, rows[0] answered.
GetUsuariosId(s, id, dbErr) ==
    /\ s = listening
    /\ LET rows == {u \in usuarios : u.id = id}
           route == "GET /usuarios/:id"
       IN  IF dbErr # NoError
           THEN res' = Exchange(s, route, 500, ErrorBody(dbErr),
                                [Idle EXCEPT !.queried = TRUE, !.thrown = dbErr])
           ELSE IF rows = {}
           THEN res' = Exchange(s, route, 404, ErrorBody("Usuario no encontrado"),
                                [Idle EXCEPT !.queried = TRUE])
           ELSE res' = Exchange(s, route, 200, Body("", "", rows, NoToken),
                                [Idle EXCEPT !.queried = TRUE, !.touched = rows])
    /\ UNCHANGED <<secret, listening, clock, usuarios, usuariosSeq, registros,
                   registrosSeq, held, submitted>>

\* GET /usuarios/correo/:correo, a route of part_001 only.  rows[0] is
\* answered: the lookup has no ORDER BY, so any row with that correo can come
\* first.
GetUsuariosCorreo(s, correo, dbErr) ==
    /\ s = listening
    /\ s = "part_001"
    /\ LET rows == {u \in usuarios : u.correo = correo}
           route == "GET /usuarios/correo/:correo"
           did == [Idle EXCEPT !.correo = correo]
       IN  IF dbErr # NoError
           THEN res' = Exchange(s, route, 500, ErrorBody(dbErr),
                                [did EXCEPT !.queried = TRUE, !.thrown = dbErr])
           ELSE IF rows = {}
           THEN res' = Exchange(s, route, 404, ErrorBody("Usuario no encontrado"),
                                [did EXCEPT !.queried = TRUE])
           ELSE \E user \in rows :
                  res' = Exchange(s, route, 200, Body("", "", {user}, NoToken),
                                  [did EXCEPT !.queried = TRUE, !.touched = {user}])
    /\ UNCHANGED <<secret, listening, clock, usuarios, usuariosSeq, registros,
                   registrosSeq, held, submitted>>

\* if (isMatch) { ... } of src/index.js: no token is issued.
loginMatch_index(user, key, now) ==
    [status |-> 200, thrown |-> NoError,
     body |-> Body("", "Inicio de sesión exitoso", {user}, NoToken)]

\* if (isMatch) { ... } of part_000: jwt.sign throws when the secret is unset,
\* and the route's catch answers.
loginMatch_part_000(user, key, now) ==
    IF key = NoSecret
    THEN [status |-> 500, thrown |-> "secretOrPrivateKey must have a value",
          body |-> ErrorBody("secretOrPrivateKey must have a value")]
    ELSE [status |-> 200, thrown |-> NoError,
          body |-> Body("", "Inicio de sesión exitoso", {user},
                        jwt_sign(user.id, key, now))]

\* POST /usuarios/login.  user is result.rows[0]: the lookup has no ORDER BY,
\* so any row with that correo can come first.
PostUsuariosLogin(s, correo, contrasena, dbErr) ==
    /\ s = listening
    /\ s \in LoginServices
    /\ LET did == [Idle EXCEPT !.correo = correo, !.contrasena = contrasena]
           rows == {u \in usuarios : u.correo = correo}
           route == "POST /usuarios/login"
       IN  IF correo = "" \/ contrasena = Empty
           THEN /\ res' = Exchange(s, route, 400,
                                   ErrorBody("Se requiere correo y contraseña."), did)
                /\ UNCHANGED held
           ELSE IF dbErr # NoError
           THEN /\ res' = Exchange(s, route, 500, ErrorBody(dbErr),
                                   [did EXCEPT !.queried = TRUE, !.thrown = dbErr])
                /\ UNCHANGED held
           ELSE IF rows = {}
           THEN /\ res' = Exchange(s, route, 404, ErrorBody("Usuario no encontrado"),
                                   [did EXCEPT !.queried = TRUE])
                /\ UNCHANGED held
           ELSE \E user \in rows :
                  IF bcrypt_compare(contrasena, user.contrasena)
                  THEN LET out == IF s = "index.js"
                                  THEN loginMatch_index(user, secret, clock)
                                  ELSE loginMatch_part_000(user, secret, clock)
                       IN  /\ res' = Exchange(s, route, out.status, out.body,
                                              [did EXCEPT !.queried = TRUE,
                                                          !.touched = {user},
                                                          !.thrown = out.thrown])
                           /\ held' = IF out.body.token # NoToken
                                      THEN out.body.token ELSE held
                  ELSE /\ res' = Exchange(s, route, 400,
                                          ErrorBody("Contraseña incorrecta"),
                                          [did EXCEPT !.queried = TRUE,
                                                      !.touched = {user}])
                       /\ UNCHANGED held
    /\ UNCHANGED <<secret, listening, clock, usuarios, usuariosSeq, registros,
                   registrosSeq, submitted>>

\* ------------------------------------------------ what a client can present
\* A held token with its payload rewritten and its signature kept.
Tampered(t) ==
    {[t EXCEPT !.payload.id = i] : i \in (1..MaxOwners) \ {t.payload.id}}
        \cup {[t EXCEPT !.payload.exp = @ + expiresIn]}

\* The token strings a client can send: the one it holds, that one altered,
\* one signed with another key, and a string that is no token.
Presentable ==
    {held, jwt_sign(1, "not-the-secret", clock), Malformed}
        \cup (IF held = NoToken THEN {} ELSE Tampered(held))

\* The Authorization headers a client can send: none, a token string alone,
\* and the held token after "Bearer ".
Headers ==
    {NoHeader} \cup {[set |-> TRUE, scheme |-> "", token |-> t] : t \in Presentable}
               \cup {[set |-> TRUE, scheme |-> "Bearer", token |-> held]}

\* The instants the clock is read at: around issue and around expiration.
Instants == {0, expiresIn - 1, expiresIn} \cup {expiresIn + d : d \in 1..MaxLate}

\* Time passes.
Tick(now) ==
    /\ now \in Instants
    /\ now > clock
    /\ clock' = now
    /\ UNCHANGED <<secret, listening, usuarios, usuariosSeq, registros,
                   registrosSeq, held, submitted, res>>

\* verifyToken made to look the account up: a token whose account is gone
\* is turned away.
verifyToken_revoking(header, key, now) ==
    LET err == jwt_verify_error(header.token, key, now)
        live == \E u \in usuarios : u.id = header.token.payload.id
    IN  IF header.set /\ header.scheme = "" /\ err = NoError /\ live
        THEN [next |-> TRUE, status |-> 0, body |-> [error |-> "", message |-> "",
                                                       rows |-> {}, token |-> Malformed],
              usuario_id |-> header.token.payload.id, bound |-> TRUE, thrown |-> NoError]
        ELSE [next |-> FALSE, status |-> 401,
              body |-> [error |-> "Token inválido", message |-> "",
                        rows |-> {}, token |-> Malformed],
              usuario_id |-> undefined, bound |-> FALSE, thrown |-> err]

\* verifyToken(req, res, next) of part_000: the whole Authorization header is
\* taken as the token.  next says whether the route handler runs.
verifyToken(header, key, now) ==
    IF ~header.set
    THEN [next |-> FALSE, status |-> 403, body |-> ErrorBody("No autorizado, falta token"),
          usuario_id |-> undefined, bound |-> FALSE, thrown |-> NoError]
    ELSE LET token == IF header.scheme = "" THEN header.token
                      ELSE Prefixed(header.token)
             err == jwt_verify_error(token, key, now)
         IN  IF err = NoError
             THEN [next |-> TRUE, status |-> 0, body |-> ErrorBody(""),
                   usuario_id |-> token.payload.id, bound |-> TRUE, thrown |-> NoError]
             ELSE [next |-> FALSE, status |-> 401, body |-> ErrorBody("Token inválido"),
                   usuario_id |-> undefined, bound |-> FALSE, thrown |-> err]

\* What verifyToken leaves of the request when it answers itself.
Rejected(s, route, header, v) ==
    Exchange(s, route, v.status, v.body,
             [Idle EXCEPT !.header = header, !.thrown = v.thrown])

\* GET /registros of part_000
GetRegistros_part_000(header, dbErr) ==
    /\ listening = "part_000"
    /\ LET v == verifyToken(header, secret, clock)
           route == "GET /registros"
           did == [Idle EXCEPT !.header = header, !.usuario_id = v.usuario_id,
                               !.bound = v.bound, !.queried = TRUE]
           rows == {r \in registros : r.usuario_id = v.usuario_id}
       IN  IF ~v.next
           THEN res' = Rejected("part_000", route, header, v)
           ELSE IF dbErr # NoError
           THEN res' = Exchange("part_000", route, 500, ErrorBody(dbErr),
                                [did EXCEPT !.thrown = dbErr])
           ELSE res' = Exchange("part_000", route, 200, Body("", "", rows, NoToken),
                                [did EXCEPT !.touched = rows])
    /\ UNCHANGED <<secret, listening, clock, usuarios, usuariosSeq, registros,
                   registrosSeq, held, submitted>>

MissingRegistroFields == "Faltan campos obligatorios: tipo, monto, fecha."

\* The request bodies of POST /registros: one complete, one per missing field.
RegistroBodies ==
    {[tipo |-> "gasto", monto |-> 5, fecha |-> "2025-01-01"],
     [tipo |-> "", monto |-> 5, fecha |-> "2025-01-01"],
     [tipo |-> "gasto", monto |-> 0, fecha |-> "2025-01-01"],
     [tipo |-> "gasto", monto |-> 5, fecha |-> ""]}

\* !tipo || !monto || !fecha
Incomplete(body) == body.tipo = "" \/ body.monto = 0 \/ body.fecha = ""

\* POST /registros of part_000
PostRegistros_part_000(header, body, dbErr) ==
    /\ listening = "part_000"
    /\ LET v == verifyToken(header, secret, clock)
           route == "POST /registros"
           did == [Idle EXCEPT !.header = header, !.usuario_id = v.usuario_id,
                               !.bound = v.bound]
           row == [id |-> registrosSeq, usuario_id |-> v.usuario_id,
                   id_usuario |-> undefined, tipo |-> body.tipo,
                   monto |-> body.monto, fecha |-> body.fecha]
       IN  IF ~v.next
           THEN /\ res' = Rejected("part_000", route, header, v)
                /\ UNCHANGED <<registros, registrosSeq>>
           ELSE IF Incomplete(body)
           THEN /\ res' = Exchange("part_000", route, 400,
                                   ErrorBody(MissingRegistroFields), did)
                /\ UNCHANGED <<registros, registrosSeq>>
           ELSE IF dbErr # NoError
           THEN /\ res' = Exchange("part_000", route, 500, ErrorBody(dbErr),
                                   [did EXCEPT !.queried = TRUE, !.thrown = dbErr])
                /\ UNCHANGED <<registros, registrosSeq>>
           ELSE /\ registros' = registros \cup {row}
                /\ registrosSeq' = registrosSeq + 1
                /\ res' = Exchange("part_000", route, 201, Body("", "", {row}, NoToken),
                                   [did EXCEPT !.queried = TRUE, !.touched = {row}])
    /\ UNCHANGED <<secret, listening, clock, usuarios, usuariosSeq, held, submitted>>

\* DELETE /registros/:id of part_000
DeleteRegistros_part_000(header, id, dbErr) ==
    /\ listening = "part_000"
    /\ LET v == verifyToken(header, secret, clock)
           route == "DELETE /registros/:id"
           did == [Idle EXCEPT !.header = header, !.usuario_id = v.usuario_id,
                               !.bound = v.bound, !.queried = TRUE]
           old == {r \in registros : r.id = id}
       IN  IF ~v.next
           THEN /\ res' = Rejected("part_000", route, header, v)
                /\ UNCHANGED registros
           ELSE IF dbErr # NoError
           THEN /\ res' = Exchange("part_000", route, 500, ErrorBody(dbErr),
                                   [did EXCEPT !.thrown = dbErr])
                /\ UNCHANGED registros
           ELSE IF old = {}
           THEN /\ res' = Exchange("part_000", route, 404,
                                   ErrorBody("Registro no encontrado"), did)
                /\ UNCHANGED registros
           ELSE /\ registros' = registros \ old
                /\ res' = Exchange("part_000", route, 200,
                                   Body("", "Registro eliminado correctamente", old, NoToken),
                                   [did EXCEPT !.touched = old])
    /\ UNCHANGED <<secret, listening, clock, usuarios, usuariosSeq, registrosSeq,
                   held, submitted>>

\* decoded.<name>: undefined when the payload carries no such claim.
Claim(payload, name) ==
    IF name \in DOMAIN payload THEN payload[name] ELSE undefined

\* req.headers.authorization?.split(' ')[1] of src/index.js
bearerToken_index(header) ==
    IF header.set /\ header.scheme # ""
    THEN [set |-> TRUE, token |-> header.token]
    ELSE [set |-> FALSE, token |-> NoToken]

\* GET /registros of src/index.js: no token is asked for.
GetRegistros_index(dbErr) ==
    /\ listening = "index.js"
    /\ LET route == "GET /registros"
           did == [Idle EXCEPT !.queried = TRUE]
       IN  IF dbErr # NoError
           THEN res' = Exchange("index.js", route, 500, ErrorBody(dbErr),
                                [did EXCEPT !.thrown = dbErr])
           ELSE res' = Exchange("index.js", route, 200, Body("", "", registros, NoToken),
                                [did EXCEPT !.touched = registros])
    /\ UNCHANGED <<secret, listening, clock, usuarios, usuariosSeq, registros,
                   registrosSeq, held, submitted>>

\* POST /registros of src/index.js
PostRegistros_index(header, body, dbErr) ==
    /\ listening = "index.js"
    /\ LET route == "POST /registros"
           t == bearerToken_index(header)
           err == jwt_verify_error(t.token, secret, clock)
           id_usuario == Claim(t.token.payload, "id_usuario")
           did == [Idle EXCEPT !.header = header]
           row == [id |-> registrosSeq, usuario_id |-> undefined,
                   id_usuario |-> id_usuario, tipo |-> body.tipo,
                   monto |-> body.monto, fecha |-> body.fecha]
       IN  IF Incomplete(body)
           THEN /\ res' = Exchange("index.js", route, 400,
                                   ErrorBody(MissingRegistroFields), did)
                /\ UNCHANGED <<registros, registrosSeq>>
           ELSE IF ~t.set
           THEN /\ res' = Exchange("index.js", route, 401,
                                   ErrorBody("Se requiere autenticación"), did)
                /\ UNCHANGED <<registros, registrosSeq>>
           ELSE IF err # NoError
           THEN /\ res' = Exchange("index.js", route, 500, ErrorBody(err),
                                   [did EXCEPT !.thrown = err])
                /\ UNCHANGED <<registros, registrosSeq>>
           ELSE IF dbErr # NoError
           THEN /\ res' = Exchange("index.js", route, 500, ErrorBody(dbErr),
                                   [did EXCEPT !.usuario_id = id_usuario, !.bound = TRUE,
                                               !.queried = TRUE, !.thrown = dbErr])
                /\ UNCHANGED <<registros, registrosSeq>>
           ELSE /\ registros' = registros \cup {row}
                /\ registrosSeq' = registrosSeq + 1
                /\ res' = Exchange("index.js", route, 201, Body("", "", {row}, NoToken),
                                   [did EXCEPT !.usuario_id = id_usuario, !.bound = TRUE,
                                               !.queried = TRUE, !.touched = {row}])
    /\ UNCHANGED <<secret, listening, clock, usuarios, usuariosSeq, held, submitted>>

\* DELETE /registros/:id of src/index.js: no token is asked for.
DeleteRegistros_index(id, dbErr) ==
    /\ listening = "index.js"
    /\ LET route == "DELETE /registros/:id"
           did == [Idle EXCEPT !.queried = TRUE]
           old == {r \in registros : r.id = id}
       IN  IF dbErr # NoError
           THEN /\ res' = Exchange("index.js", route, 500, ErrorBody(dbErr),
                                   [did EXCEPT !.thrown = dbErr])
                /\ UNCHANGED registros
           ELSE IF old = {}
           THEN /\ res' = Exchange("index.js", route, 404,
                                   ErrorBody("Registro no encontrado"), did)
                /\ UNCHANGED registros
           ELSE /\ registros' = registros \ old
                /\ res' = Exchange("index.js", route, 200,
                                   Body("", "Registro eliminado correctamente", old, NoToken),
                                   [did EXCEPT !.touched = old])
    /\ UNCHANGED <<secret, listening, clock, usuarios, usuariosSeq, registrosSeq,
                   held, submitted>>

\* ------------------------------------------------------------ specifications
Outcomes == {NoError} \cup DbErrors

\* The request bodies of POST /usuarios and PUT /usuarios/:id: the complete
\* ones, and one per missing field.
UsuarioBodies ==
    {[nombre |-> "ana", correo |-> c, contrasena |-> p] :
        c \in Correos \ {""}, p \in {Short, Long(1)}}
    \cup {[nombre |-> "", correo |-> "a@x", contrasena |-> Short],
          [nombre |-> "ana", correo |-> "", contrasena |-> Short],
          [nombre |-> "ana", correo |-> "a@x", contrasena |-> Empty]}

\* The request bodies of POST /usuarios/login.
LoginBodies ==
    {[correo |-> c, contrasena |-> p] : c \in Correos \ {""}, p \in Passwords \ {Empty}}
    \cup {[correo |-> "", contrasena |-> Short], [correo |-> "a@x", contrasena |-> Empty]}

\* The credential lifecycle: accounts are created, updated, deleted and
\* logged into, on every service that has the route.
Next ==
    \/ \E s \in Services : Listen(s)
    \/ \E s \in Services, b \in UsuarioBodies, salt \in Salts, e \in Outcomes :
          /\ usuariosSeq <= MaxUsuarios
          /\ PostUsuarios(s, b.nombre, b.correo, b.contrasena, salt, e)
    \/ \E s \in Services, id \in 1..MaxUsuarios, b \in UsuarioBodies,
          salt \in Salts, e \in Outcomes :
          PutUsuarios(s, id, b.nombre, b.correo, b.contrasena, salt, e)
    \/ \E s \in Services, id \in 1..MaxUsuarios, e \in Outcomes :
          DeleteUsuarios(s, id, e)
    \/ \E s \in LoginServices, b \in LoginBodies, e \in Outcomes :
          PostUsuariosLogin(s, b.correo, b.contrasena, e)

Spec == InitKeyed /\ [][Next]_vars

\* The accounts the record routes are explored with: the first one created
\* is a@x, the next ones b@x.
OwnerCorreo == IF usuariosSeq = 1 THEN "a@x" ELSE "b@x"

\* The record routes of both services: accounts log in on part_000 and the
\* tokens are presented, as issued or altered, while time passes.
NextRecords ==
    \/ \E s \in RegistroServices : Listen(s)
    \/ /\ usuariosSeq <= MaxOwners
       /\ PostUsuarios("part_000", "ana", OwnerCorreo, Short, "saltA", NoError)
    \/ \E c \in Correos \ {""} : PostUsuariosLogin("part_000", c, Short, NoError)
    \/ \E now \in Instants : Tick(now)
    \/ \E h \in Headers, e \in Outcomes : GetRegistros_part_000(h, e)
    \/ \E h \in Headers, b \in RegistroBodies, e \in Outcomes :
          /\ registrosSeq <= MaxRegistros
          /\ PostRegistros_part_000(h, b, e)
    \/ \E h \in Headers, id \in 1..MaxRegistros, e \in Outcomes :
          DeleteRegistros_part_000(h, id, e)
    \/ \E e \in Outcomes : GetRegistros_index(e)
    \/ \E h \in Headers, b \in RegistroBodies, e \in Outcomes :
          /\ registrosSeq <= MaxRegistros
          /\ PostRegistros_index(h, b, e)
    \/ \E id \in 1..MaxRegistros, e \in Outcomes : DeleteRegistros_index(id, e)

SpecRecords == InitKeyed /\ [][NextRecords]_vars

\* The life of a token on part_000: an account logs in, its password is
\* changed or the account deleted, time passes, and the token is presented,
\* as issued or altered, to the protected routes.
NextTokens ==
    \/ Listen("part_000")
    \/ /\ usuariosSeq <= MaxUsuarios
       /\ PostUsuarios("part_000", "ana", OwnerCorreo, Short, "saltA", NoError)
    \/ \E id \in 1..MaxUsuarios :
          PutUsuarios("part_000", id, "ana", "a@x", Long(1), "saltB", NoError)
    \/ \E id \in 1..MaxUsuarios : DeleteUsuarios("part_000", id, NoError)
    \/ \E c \in Correos \ {""}, p \in {Short, Long(1)} :
          PostUsuariosLogin("part_000", c, p, NoError)
    \/ \E now \in Instants : Tick(now)
    \/ \E h \in Headers : GetRegistros_part_000(h, NoError)
    \/ \E h \in Headers, b \in RegistroBodies :
          /\ registrosSeq <= MaxRegistros
          /\ PostRegistros_part_000(h, b, NoError)

SpecTokens == InitKeyed /\ [][NextTokens]_vars

\* Start-up with or without JWT_SECRET in the environment, and the first
\* requests each service then answers.
NextBoot ==
    \/ \E s \in Services : Listen(s)
    \/ \E s \in Services, salt \in Salts :
          /\ usuariosSeq <= MaxUsuarios
          /\ PostUsuarios(s, "ana", "a@x", Short, salt, NoError)
    \/ \E s \in LoginServices, b \in LoginBodies :
          PostUsuariosLogin(s, b.correo, b.contrasena, NoError)
    \/ \E h \in Headers : GetRegistros_part_000(h, NoError)
    \/ \E h \in Headers, b \in RegistroBodies :
          /\ registrosSeq <= MaxRegistros
          /\ PostRegistros_index(h, b, NoError)

SpecBoot == Init /\ [][NextBoot]_vars

\* Every /usuarios route of the three services: accounts are created,
\* updated, deleted, listed, looked up by id and by correo, and logged into.
NextLookup ==
    \/ \E s \in Services : Listen(s)
    \/ \E s \in Services, p \in {Short, Long(1)} :
          /\ usuariosSeq <= MaxOwners
          /\ PostUsuarios(s, "ana", OwnerCorreo, p, "saltA", NoError)
    \/ \E s \in Services, id \in 1..MaxOwners :
          PutUsuarios(s, id, "ana", "a@x", Long(1), "saltB", NoError)
    \/ \E s \in Services, id \in 1..MaxOwners : DeleteUsuarios(s, id, NoError)
    \/ \E s \in LoginServices, c \in Correos \ {""}, p \in {Short, Long(1)} :
          PostUsuariosLogin(s, c, p, NoError)
    \/ \E s \in Services, e \in Outcomes : GetUsuarios(s, e)
    \/ \E s \in Services, id \in 1..MaxOwners, e \in Outcomes : GetUsuariosId(s, id, e)
    \/ \E c \in Correos \ {""}, e \in Outcomes : GetUsuariosCorreo("part_001", c, e)

SpecLookup == InitKeyed /\ [][NextLookup]_vars

\* ------------------------------------------------------------------ claims
LoginRoute == "POST /usuarios/login"
RegistroRoutes == {"GET /registros", "POST /registros", "DELETE /registros/:id"}
JwtErrors == {"jwt malformed", "invalid token", "invalid signature", "jwt expired",
              "secret or public key must be provided"}

\* The exchange x is a login for a correo no account has.
UnknownAccount(x) ==
    /\ x.route = LoginRoute /\ x.correo # "" /\ x.contrasena # Empty
    /\ x.queried /\ x.thrown = NoError /\ x.touched = {}

\* The exchange x is a login for an existing account with a password that
\* does not match its stored hash.
WrongPassword(x) ==
    /\ x.route = LoginRoute /\ x.thrown = NoError /\ x.touched # {}
    /\ \A u \in x.touched : ~bcrypt_compare(x.contrasena, u.contrasena)

\* C1: a login answered for an unknown account and a login answered for a wrong
\* password carry the same status code and the same error body, whichever of
\* the two comes first.
C1_LoginFailuresIndistinguishable ==
    [][(\/ WrongPassword(res) /\ UnknownAccount(res')
        \/ UnknownAccount(res) /\ WrongPassword(res'))
       => res'.status = res.status /\ res'.body = res.body]_vars

\* The exchange x went through a route that reads a token, and the route got
\* as far as reading it.
ReadsToken(x) ==
    \/ x.svc = "part_000" /\ x.route \in RegistroRoutes
    \/ x.svc = "index.js" /\ x.route = "POST /registros" /\ x.status # 400

\* The token string the service takes from the request of exchange x.
Extracted(x) ==
    IF x.svc = "part_000"
    THEN [set |-> x.header.set,
          token |-> IF x.header.scheme = "" THEN x.header.token
                    ELSE Prefixed(x.header.token)]
    ELSE bearerToken_index(x.header)

\* The accounts a record row names as its owner.
Owners(r) == {r.usuario_id, r.id_usuario} \ {undefined}

\* C2: a request authorized by the token issued at A's login resolves to no
\* other account's id and returns, creates or deletes no record owned by
\* another account.
C2_TokenScopedToOwner ==
    (ReadsToken(res) /\ res.bound) =>
        LET a == Extracted(res).token.payload.id
        IN  /\ res.usuario_id \in {a, undefined}
            /\ \A r \in res.touched : Owners(r) \subseteq {a}

\* The exchange x presented no token, or one that jwt.verify refused.
TokenFailure(x) ==
    /\ ReadsToken(x)
    /\ ~Extracted(x).set \/ x.thrown \in JwtErrors

\* C3: every token-validation failure is answered with the same Unauthorized
\* response as the one before it, binds no account id and runs no query.
C3_OneUnauthorizedOutcome ==
    [][TokenFailure(res') =>
          /\ ~res'.bound /\ ~res'.queried
          /\ TokenFailure(res) => res'.status = res.status /\ res'.body = res.body]_vars

\* The exchange x presented the held token, as issued, in the form its
\* service reads tokens in.
PresentsHeld(x) ==
    /\ ReadsToken(x) /\ held # NoToken
    /\ Extracted(x).set /\ Extracted(x).token = held

\* C4: the token a login returned, presented unexpired and unmodified on a
\* route that reads it, binds the request to the account that logged in.
C4_IssueThenValidate ==
    (PresentsHeld(res) /\ clock < held.payload.exp) =>
        res.bound /\ res.usuario_id # undefined /\ res.usuario_id = held.payload.id

\* The header carries a string that is no token, the held token with its
\* payload altered, a token signed with another key, or the held token at or
\* past its expiration.
NotCurrentlyValid(h, now) ==
    /\ h.set
    /\ \/ h.token = Malformed
       \/ h.scheme # ""
       \/ held # NoToken /\ h.token \in Tampered(held)
       \/ h.token = jwt_sign(1, "not-the-secret", now)
       \/ h.token = held /\ now >= held.payload.exp

\* C5: a request to a route behind verifyToken whose token is not currently
\* valid is answered with an error, binds no account id and runs no query.
C5_InvalidTokenNeverBinds ==
    [][(/\ UNCHANGED <<clock, listening, held>>
        /\ res'.svc = "part_000" /\ res'.route \in RegistroRoutes
        /\ NotCurrentlyValid(res'.header, clock))
       => /\ res'.status >= 400
          /\ ~res'.bound /\ res'.usuario_id = undefined
          /\ ~res'.queried /\ res'.touched = {}]_vars

\* A token presented at the very second of its expiration was turned away.
C5_Witness ==
    /\ res.svc = "part_000" /\ res.route \in RegistroRoutes
    /\ held # NoToken /\ res.header.token = held /\ res.header.scheme = ""
    /\ clock = held.payload.exp
    /\ res.thrown = "jwt expired" /\ res.status = 401

\* C6: every stored contrasena is a bcrypt hash of cost 10 that the password
\* last submitted for the row verifies against, and is not that password.
C6_StoredHashNeverPlaintext ==
    \A u \in usuarios :
        /\ u.contrasena.fmt = "$2a$"
        /\ u.contrasena.cost = 10
        /\ bcrypt_compare(submitted[u.id], u.contrasena)
        /\ u.contrasena # Text(submitted[u.id])

\* An account whose password a PUT has replaced.
C6_Witness ==
    /\ res.route = "PUT /usuarios/:id" /\ res.status = 200
    /\ \E u \in usuarios : u \in res.touched /\ submitted[u.id] = Long(1)

\* C7: a login with a non-empty key and password that meets no internal error
\* succeeds exactly when some account has that correo and the password is the
\* one last set for it.
C7_LoginIffCurrentPassword ==
    (/\ res.route = LoginRoute /\ res.correo # "" /\ res.contrasena # Empty
     /\ res.thrown = NoError)
    => (res.status = 200 <=>
           \E u \in usuarios : u.correo = res.correo /\ submitted[u.id] = res.contrasena)

\* C8: the held token, presented as issued before its expiration to a route
\* behind verifyToken, is accepted and resolves to the account it was issued
\* for, whatever has happened to that account since.
C8_NoEarlyRevocation ==
    (/\ res.svc = "part_000" /\ res.route \in RegistroRoutes
     /\ held # NoToken /\ res.header.set /\ res.header.scheme = ""
     /\ res.header.token = held
     /\ clock < held.payload.exp)
    => res.bound /\ res.usuario_id = held.payload.id

\* The token of an account since deleted was accepted.
C8_Witness ==
    /\ res.svc = "part_000" /\ res.route \in RegistroRoutes
    /\ held # NoToken /\ res.header.token = held /\ res.header.scheme = ""
    /\ res.bound /\ res.usuario_id = held.payload.id
    /\ held.payload.id < usuariosSeq
    /\ ~\E u \in usuarios : u.id = held.payload.id

\* C9: with JWT_SECRET unset no service listens and no request is answered.
C9_NoSecretNeverServes ==
    secret = NoSecret => listening = "" /\ res = NoExchange

\* C10: the body answered when a primitive throws does not carry the message
\* of the error thrown.
C10_NoInternalDetail ==
    res.thrown # NoError => res.body.error # res.thrown

\* The credential hashes a response body carries: the contrasena of every
\* usuarios row in it.
HashesIn(body) ==
    {r.contrasena : r \in {x \in body.rows : "contrasena" \in DOMAIN x}}

\* C11: no response of a /usuarios route (creation, update, deletion, lookup
\* by id or correo, listing, login) carries the contrasena hash of an account.
C11_HashNeverInResponses ==
    HashesIn(res.body) = {}
====
